---- MODULE Spec2Model ----
(***************************************************************************)
(* A model of cli/src/parse.rs: the offset/position converters, the edit   *)
(* flag parser, perform_edit, the edit loop of parse_file_at_path, the     *)
(* StepRender traversal with its ranged and line-annotated strategies, the *)
(* debug_xml walk and the first-error scan.                                *)
(*                                                                         *)
(* Bytes and characters are one-character strings; a buffer (Vec<u8>) and  *)
(* an edit flag (&str) are sequences of them.  Rust indexes from 0, TLA+   *)
(* sequences from 1: input[k] of the code is input[k + 1] here.  Offsets,  *)
(* rows and columns keep the code's 0-based values.                        *)
(*                                                                         *)
(* usize is modelled by the naturals: every number the bounded inputs can  *)
(* produce is far below 2^64, and the one sum that an adversarial flag     *)
(* could overflow (position + deleted_length, line 555) ends in a panic    *)
(* before the buffer is touched whether the build traps the overflow or    *)
(* wraps it (a wrapped old_end_byte is below start_byte, and Vec::splice   *)
(* rejects the range), exactly as the out-of-range case modelled here.     *)
(***************************************************************************)
EXTENDS Integers, Sequences, FiniteSets, TLC

VARIABLES
    pc,                   \* position of the modelled run
    source_code,          \* the byte buffer (parse.rs:369)
    offset, position, back, point,                \* converter round trip
    original, edits, i, edit, input_edit,         \* edit loop (parse.rs:404-412)
    treeEdits, parses,                            \* calls made on the external tree / parser
    parent, named, errs, show_all,                \* the tree under the cursor
    kinds, text, has_source,                      \* node kinds, leaf bytes, Option<&[u8]>
    cursor, indent_level, needs_visit_children,   \* StepRender::render locals
    needs_newline, events,
    first_error,                                  \* first-error scan (parse.rs:486)
    did_visit_children, tags,                     \* debug_xml walk (parse.rs:431-484)
    visits,                                       \* history: the loop iterations of a walk
    stdout, returned                              \* what is written and returned

convVars == <<offset, position, back, point>>
editVars == <<original, edits, i, edit, input_edit, treeEdits, parses>>
treeVars == <<parent, named, errs, show_all, kinds, text, has_source>>
walkVars == <<cursor, indent_level, needs_visit_children, needs_newline, events,
              first_error, did_visit_children, tags, visits>>
outVars == <<stdout, returned>>
vars == <<pc, source_code, convVars, editVars, treeVars, walkVars, outVars>>

---------------------------------------------------------------------------
(* Bounds of the model. *)
MaxBufLen == 3
MaxEdits == 2
MaxNodes == 5

NL == "\n"
Bytes == {"a", NL}
Buffers == UNION {[1..n -> Bytes] : n \in 0..MaxBufLen}

---------------------------------------------------------------------------
(* tree_sitter::Point and its derived lexicographic order. *)
Point(r, c) == [row |-> r, column |-> c]

PointGTRowOnly(a, b) == a.row > b.row

PointGT(a, b) == a.row > b.row \/ (a.row = b.row /\ a.column > b.column)

(* The accumulation rule shared by both converters (lines 617-622, 633-638). *)
Advance(p, c) ==
    IF c = NL THEN Point(p.row + 1, 0) ELSE Point(p.row, p.column + 1)

(* position_for_offset: fold over input[0..offset].  The slice panics when *)
(* offset > input.len(); callers test SliceInBounds first.                 *)
SliceInBounds(input, off) == off <= Len(input)

RECURSIVE PosFold(_, _, _, _)
PosFold(input, k, off, result) ==
    IF k > off THEN result
    ELSE PosFold(input, k + 1, off, Advance(result, input[k]))

PositionForOffset(input, off) == PosFold(input, 1, off, Point(0, 0))

(* offset_for_position: scan, returning the 0-based index of the first     *)
(* byte after which the running position strictly exceeds the target.      *)
RECURSIVE OffScan(_, _, _, _)
OffScan(input, k, current_position, target) ==
    IF k > Len(input) THEN Len(input)
    ELSE LET nxt == Advance(current_position, input[k])
         IN  IF PointGT(nxt, target) THEN k - 1
             ELSE OffScan(input, k + 1, nxt, target)

RECURSIVE OffScanGE(_, _, _, _)
OffScanGE(input, k, current_position, target) ==
    IF k > Len(input) THEN Len(input)
    ELSE LET nxt == Advance(current_position, input[k])
         IN  IF ~PointGT(target, nxt) THEN k - 1
             ELSE OffScanGE(input, k + 1, nxt, target)

OffsetForPositionGE(input, target) == OffScanGE(input, 1, Point(0, 0), target)

OffsetForPosition(input, target) == OffScan(input, 1, Point(0, 0), target)

---------------------------------------------------------------------------
(* Strings: str::split, [&str]::join and usize::from_str_radix(_, 10). *)
Range(s) == {s[k] : k \in 1..Len(s)}

FirstIndex(s, sep) == CHOOSE k \in 1..Len(s) : s[k] = sep /\ \A j \in 1..(k - 1) : s[j] /= sep

RECURSIVE Split(_, _)
Split(s, sep) ==
    IF sep \notin Range(s) THEN <<s>>
    ELSE LET k == FirstIndex(s, sep)
         IN  <<SubSeq(s, 1, k - 1)>> \o Split(SubSeq(s, k + 1, Len(s)), sep)

JoinFirstOnly(parts, sep) == IF parts = <<>> THEN <<>> ELSE parts[1]

RECURSIVE Join(_, _)
Join(parts, sep) ==
    IF parts = <<>> THEN <<>>
    ELSE IF Len(parts) = 1 THEN parts[1]
    ELSE parts[1] \o <<sep>> \o Join(Tail(parts), sep)

DigitChars == <<"0", "1", "2", "3", "4", "5", "6", "7", "8", "9">>

Digits == Range(DigitChars)

DigitValue(c) == (CHOOSE k \in 1..Len(DigitChars) : DigitChars[k] = c) - 1

RECURSIVE DecimalValue(_, _)
DecimalValue(s, acc) ==
    IF s = <<>> THEN acc ELSE DecimalValue(Tail(s), acc * 10 + DigitValue(s[1]))

(* from_str_radix of an unsigned type: the empty string and a lone sign    *)
(* are errors, one leading '+' is accepted, every other byte must be a     *)
(* digit.  No input of the model is long enough to overflow.               *)
ParseUsize(s) ==
    LET digits == IF Len(s) > 1 /\ s[1] = "+" THEN Tail(s) ELSE s
    IN  IF digits /= <<>> /\ Range(digits) \subseteq Digits
        THEN [ok |-> TRUE, val |-> DecimalValue(digits, 0)]
        ELSE [ok |-> FALSE, val |-> 0]

---------------------------------------------------------------------------
(* parse_edit_flag (lines 573-612).  Every failure is the same error,      *)
(* whose message embeds the flag.                                          *)
EditError(flag) == [ok |-> FALSE, error |-> flag]

ParsePositionDollarStart(source, field) ==
    IF field = <<"$">> THEN [ok |-> TRUE, val |-> 0]
    ELSE IF "," \in Range(field)
    THEN LET parts == Split(field, ",")
             row == ParseUsize(parts[1])
             column == ParseUsize(parts[2])
         IN  IF row.ok /\ column.ok
             THEN [ok |-> TRUE,
                   val |-> OffsetForPosition(source, Point(row.val, column.val))]
             ELSE [ok |-> FALSE, val |-> 0]
    ELSE ParseUsize(field)

ParsePosition(source, field) ==
    IF field = <<"$">> THEN [ok |-> TRUE, val |-> Len(source)]
    ELSE IF "," \in Range(field)
    THEN LET parts == Split(field, ",")
             row == ParseUsize(parts[1])
             column == ParseUsize(parts[2])
         IN  IF row.ok /\ column.ok
             THEN [ok |-> TRUE,
                   val |-> OffsetForPosition(source, Point(row.val, column.val))]
             ELSE [ok |-> FALSE, val |-> 0]
    ELSE ParseUsize(field)

ParseEditFlag(source, flag) ==
    LET parts == Split(flag, " ")
    IN  IF Len(parts) < 2 THEN EditError(flag)
        ELSE LET pos == ParsePosition(source, parts[1])
                 del == ParseUsize(parts[2])
             IN  IF pos.ok /\ del.ok
                 THEN [ok |-> TRUE,
                       position |-> pos.val,
                       deleted_length |-> del.val,
                       inserted_text |-> Join(SubSeq(parts, 3, Len(parts)), " ")]
                 ELSE EditError(flag)

---------------------------------------------------------------------------
(* perform_edit (lines 553-571). *)
StartByte(e) == e.position

OldEndByte(e) == e.position + e.deleted_length

NewEndByteAfterOld(e) == e.position + e.deleted_length + Len(e.inserted_text)

NewEndByte(e) == e.position + Len(e.inserted_text)

(* Vec::splice(start..end, replace_with); the range check comes first. *)
SpliceInBounds(input, start, end) == start <= end /\ end <= Len(input)

SpliceKeepRange(input, start, end, replace_with) ==
    SubSeq(input, 1, start) \o replace_with \o SubSeq(input, start + 1, Len(input))

Splice(input, start, end, replace_with) ==
    [k \in 1..(Len(input) - (end - start) + Len(replace_with)) |->
        IF k <= start THEN input[k]
        ELSE IF k <= start + Len(replace_with) THEN replace_with[k - start]
        ELSE input[k - Len(replace_with) + (end - start)]]

Min(a, b) == IF a <= b THEN a ELSE b

NewEndPositionStale(old_input, new_input, new_end_byte) ==
    PositionForOffset(old_input, Min(new_end_byte, Len(old_input)))

NewEndPosition(old_input, new_input, new_end_byte) ==
    PositionForOffset(new_input, new_end_byte)

(* The outcome of one call: whether it panicked, the buffer it leaves, the *)
(* descriptors the tree has been handed, and the descriptor returned.      *)
PerformEdit(tree, input, e) ==
    LET start_byte == StartByte(e)
        old_end_byte == OldEndByte(e)
        new_end_byte == NewEndByte(e)
        untouched == [panicked |-> TRUE, input |-> input, tree |-> tree, ret |-> <<>>]
    IN  IF ~SliceInBounds(input, start_byte) THEN untouched
        ELSE IF ~SliceInBounds(input, old_end_byte) THEN untouched
        ELSE IF ~SpliceInBounds(input, start_byte, old_end_byte) THEN untouched
        ELSE LET spliced == Splice(input, start_byte, old_end_byte, e.inserted_text)
             IN  IF ~SliceInBounds(spliced, new_end_byte)
                 THEN [panicked |-> TRUE, input |-> spliced, tree |-> tree, ret |-> <<>>]
                 ELSE LET input_edit_ ==
                              [start_byte |-> start_byte,
                               old_end_byte |-> old_end_byte,
                               new_end_byte |-> new_end_byte,
                               start_position |-> PositionForOffset(input, start_byte),
                               old_end_position |-> PositionForOffset(input, old_end_byte),
                               new_end_position |->
                                   NewEndPosition(input, spliced, new_end_byte)]
                      IN  [panicked |-> FALSE, input |-> spliced,
                           tree |-> Append(tree, input_edit_), ret |-> <<input_edit_>>]

---------------------------------------------------------------------------
(* Idle values of the variables a specification does not use. *)
IdleConv == offset = 0 /\ position = Point(0, 0) /\ back = 0 /\ point = Point(0, 0)

IdleEdit ==
    /\ original = <<>> /\ edits = <<>> /\ i = 0
    /\ edit = <<>>
    /\ input_edit = <<>> /\ treeEdits = <<>> /\ parses = <<>>

IdleTree ==
    /\ parent = <<0>> /\ named = <<TRUE>> /\ errs = <<"ok">> /\ show_all = FALSE
    /\ kinds = <<"x">> /\ text = <<<<>>>> /\ has_source = FALSE

IdleWalk ==
    /\ cursor = 1 /\ indent_level = 0 /\ needs_visit_children = TRUE
    /\ needs_newline = FALSE /\ events = <<>> /\ first_error = 0
    /\ did_visit_children = FALSE /\ tags = <<>> /\ visits = <<>>

IdleOut == stdout = <<>> /\ returned = "none"

---------------------------------------------------------------------------
(* The converters applied to every buffer and every valid offset. *)
InitConv ==
    /\ pc = "conv"
    /\ source_code \in Buffers
    /\ offset \in 0..Len(source_code)
    /\ position = Point(0, 0) /\ back = 0 /\ point = Point(0, 0)
    /\ IdleEdit /\ IdleTree /\ IdleWalk /\ IdleOut

ConvPosition ==
    /\ pc = "conv"
    /\ SliceInBounds(source_code, offset)
    /\ position' = PositionForOffset(source_code, offset)
    /\ pc' = "conv_back"
    /\ UNCHANGED <<source_code, offset, back, point, editVars, treeVars, walkVars, outVars>>

ConvOffset ==
    /\ pc = "conv_back"
    /\ back' = OffsetForPosition(source_code, position)
    /\ pc' = "conv_done"
    /\ UNCHANGED <<source_code, offset, position, point, editVars, treeVars, walkVars, outVars>>

NextConv == ConvPosition \/ ConvOffset

SpecConv == InitConv /\ [][NextConv]_vars

\* C1: for every buffer and every offset 0 <= o <= len, converting the offset to
\* a position and back yields o again (offsets at a newline byte and o = len included).
C1_RoundTrip == pc = "conv_done" => back = offset

C1_Witness ==
    /\ pc = "conv_done"
    /\ offset > 0 /\ offset < Len(source_code)
    /\ source_code[offset + 1] = NL
    /\ position.column > 0

---------------------------------------------------------------------------
(* parse_file_at_path up to the end of the edit loop (lines 393-412).      *)
(* treeEdits lists the descriptors given to Tree::edit, parses the buffers *)
(* given to Parser::parse; the parser may return no tree (a timeout or a   *)
(* cancellation), which the loop's unwrap turns into a panic.              *)
EditFlags == {
    <<"$", " ", "0", " ", "a">>,  \* '$ 0 a': append at end of buffer
    <<"$", " ", "0", " ", NL>>,  \* '$ 0 \n': append a newline
    <<"$", " ", "1", " ", "a">>,  \* '$ 1 a': delete past the end
    <<"0", " ", "0", " ", "a">>,  \* '0 0 a': insert at the start
    <<"0", " ", "1">>,  \* '0 1': two fields: delete the first byte
    <<"1", " ", "1", " ", "a">>,  \* '1 1 a': replace one byte
    <<"1", " ", "0", " ", NL>>,  \* '1 0 \n': insert a newline
    <<"1", " ", "0", " ", "a", " ", "a">>,  \* '1 0 a a': inserted text holding a space
    <<"0", " ", "2">>,  \* '0 2': delete two bytes
    <<"9", " ", "0", " ", "a">>,  \* '9 0 a': offset beyond the buffer
    <<"0", ",", "1", " ", "0", " ", "a">>,  \* '0,1 0 a': row,column
    <<"1", ",", "0", " ", "1", " ", "a">>,  \* '1,0 1 a': row,column on the second row
    <<"1", ",", "0", " ", "0", " ", NL>>,  \* '1,0 0 \n': row,column, newline inserted
    <<"0", ",", "1", ",", "2", " ", "0", " ", "a">>,  \* '0,1,2 0 a': a third comma-separated part
    <<"+", "1", " ", "0", " ", "a">>,  \* '+1 0 a': signed offset
    <<"a">>,  \* 'a': one field
    <<>>,  \* '': the empty flag
    <<"a", " ", "0", " ", "a">>,  \* 'a 0 a': position not a number
    <<"0", " ", "a", " ", "a">>,  \* '0 a a': deleted length not a number
    <<"1", ",", " ", "0", " ", "a">>,  \* '1, 0 a': empty column
    <<"0", " ", "-", "1", " ", "a">>,  \* '0 -1 a': negative deleted length
    <<" ", "0", " ", "a">>,  \* ' 0 a': empty position field
    <<"$", " ", " ", "a">>,  \* '$  a': empty deleted-length field
    <<"0", " ", "0", " ", " ", "a">>  \* '0 0  a': inserted text starting with a space
    }

EditLists == UNION {[1..n -> EditFlags] : n \in 0..MaxEdits}

InitEdit ==
    /\ pc = "parse"
    /\ source_code \in Buffers
    /\ original = source_code
    /\ edits \in EditLists
    /\ i = 0
    /\ edit = <<>> /\ input_edit = <<>> /\ treeEdits = <<>> /\ parses = <<>>
    /\ IdleConv /\ IdleTree /\ IdleWalk /\ IdleOut

Parse ==
    /\ pc = "parse"
    /\ parses' = Append(parses, source_code)
    /\ pc' = "loop"
    /\ UNCHANGED <<source_code, convVars, original, edits, i, edit, input_edit,
                   treeEdits, treeVars, walkVars, outVars>>

ParseTimeout ==
    /\ pc = "parse"
    /\ parses' = Append(parses, source_code)
    /\ pc' = "timed_out"
    /\ UNCHANGED <<source_code, convVars, original, edits, i, edit, input_edit,
                   treeEdits, treeVars, walkVars, outVars>>

(* The buffer parse_edit_flag is given (line 405). *)
BuildSourceOriginal == original

BuildSource == source_code

(* The `?` of line 405: an error leaves the function. *)
AfterBuildIgnoringError(e) == IF e.ok THEN "perform" ELSE "reparse"

AfterBuild(e) == IF e.ok THEN "perform" ELSE "failed"

BuildEdit ==
    /\ pc = "loop"
    /\ i < Len(edits)
    /\ edit' = <<ParseEditFlag(BuildSource, edits[i + 1])>>
    /\ pc' = AfterBuild(edit'[1])
    /\ UNCHANGED <<source_code, convVars, original, edits, i, input_edit,
                   treeEdits, parses, treeVars, walkVars, outVars>>

LoopExit ==
    /\ pc = "loop"
    /\ i = Len(edits)
    /\ pc' = "edited"
    /\ UNCHANGED <<source_code, convVars, editVars, treeVars, walkVars, outVars>>

ApplyEdit ==
    /\ pc = "perform"
    /\ LET r == PerformEdit(treeEdits, source_code, edit[1])
       IN  /\ source_code' = r.input
           /\ treeEdits' = r.tree
           /\ input_edit' = r.ret
           /\ pc' = IF r.panicked THEN "panicked" ELSE "reparse"
    /\ UNCHANGED <<convVars, original, edits, i, edit, parses, treeVars, walkVars, outVars>>

Reparse ==
    /\ pc = "reparse"
    /\ parses' = Append(parses, source_code)
    /\ i' = i + 1
    /\ pc' = "loop"
    /\ UNCHANGED <<source_code, convVars, original, edits, edit, input_edit,
                   treeEdits, treeVars, walkVars, outVars>>

ReparseTimeout ==
    /\ pc = "reparse"
    /\ parses' = Append(parses, source_code)
    /\ pc' = "panicked"
    /\ UNCHANGED <<source_code, convVars, original, edits, i, edit, input_edit,
                   treeEdits, treeVars, walkVars, outVars>>

(* The parser gave no tree (lines 538-550): the duration line when         *)
(* print_time is set, then Ok(false).                                      *)
TimedOutReturn ==
    /\ pc = "timed_out"
    /\ \E print_time \in BOOLEAN :
          stdout' = IF print_time THEN <<[w |-> "duration", timed_out |-> TRUE]>>
                    ELSE <<>>
    /\ returned' = "Ok(false)"
    /\ pc' = "returned"
    /\ UNCHANGED <<source_code, convVars, editVars, treeVars, walkVars>>

NextEdit ==
    \/ Parse \/ ParseTimeout \/ TimedOutReturn \/ BuildEdit \/ LoopExit
    \/ ApplyEdit \/ Reparse \/ ReparseTimeout

SpecEdit == InitEdit /\ [][NextEdit]_vars

---------------------------------------------------------------------------
(* What the edit flag's documentation calls well formed. *)
FlagFields(flag) == Split(flag, " ")

NonNegativeDecimal(s) ==
    LET d == IF Len(s) > 1 /\ s[1] = "+" THEN Tail(s) ELSE s
    IN  d /= <<>> /\ \A k \in 1..Len(d) : d[k] \in Digits

RowColumnPair(s) ==
    \E k \in 1..Len(s) :
        /\ s[k] = ","
        /\ NonNegativeDecimal(SubSeq(s, 1, k - 1))
        /\ NonNegativeDecimal(SubSeq(s, k + 1, Len(s)))

Malformed(flag) ==
    \/ Len(FlagFields(flag)) < 2
    \/ LET field == FlagFields(flag)[1]
       IN  ~(field = <<"$">> \/ NonNegativeDecimal(field) \/ RowColumnPair(field))
    \/ ~NonNegativeDecimal(FlagFields(flag)[2])

\* C5: parse_edit_flag returns the error carrying the flag exactly when the flag has
\* fewer than two space-separated fields, or its position field is none of `$`, a
\* non-negative decimal integer, a row,column pair of two such integers, or its
\* deleted-length field is no such integer; otherwise it returns an edit.
C5_ErrorIffMalformed ==
    pc \in {"perform", "failed"} =>
        /\ (~edit[1].ok) <=> Malformed(edits[i + 1])
        /\ (~edit[1].ok) => edit[1].error = edits[i + 1]

BuildFailed == edit /= <<>> /\ ~edit[1].ok

\* C6: once building an edit has failed, the buffer and the tree stay what they were
\* before the failing call: no Tree::edit and no re-parse for it or for a later flag.
C6_NoMutationOnMalformed ==
    [][BuildFailed' =>
          /\ source_code' = source_code
          /\ treeEdits' = treeEdits
          /\ parses' = parses
          /\ i' = i]_vars

C6_Witness ==
    /\ pc = "failed"
    /\ i = 1
    /\ Len(treeEdits) = 1
    /\ source_code /= original
    /\ edit[1].error = edits[2]

\* C7: for an edit with position + deleted_length <= len(buffer), perform_edit leaves
\* old[0, position) ++ inserted_text ++ old[position + deleted_length, len).
C7_SpliceResult ==
    [][(/\ pc = "perform"
        /\ edit[1].position + edit[1].deleted_length <= Len(source_code))
       => LET e == edit[1]
          IN  /\ source_code' =
                    SubSeq(source_code, 1, e.position) \o e.inserted_text
                    \o SubSeq(source_code, e.position + e.deleted_length + 1,
                              Len(source_code))
              /\ Len(source_code') =
                    Len(source_code) + Len(e.inserted_text) - e.deleted_length]_vars

C7_Witness ==
    /\ pc = "reparse"
    /\ edit[1].position > 0
    /\ edit[1].deleted_length > 0
    /\ edit[1].inserted_text /= <<>>
    /\ Len(source_code) > input_edit[1].new_end_byte

\* C8: the descriptor's start and old-end positions are those of start_byte and
\* old_end_byte in the buffer before the splice, its new-end position that of
\* new_end_byte in the buffer after it, and Tree::edit is given the descriptor returned.
C8_DescriptorPositions ==
    pc = "reparse" =>
        LET old == parses[Len(parses)]
            d == input_edit[1]
        IN  /\ d.start_byte = edit[1].position
            /\ d.old_end_byte = edit[1].position + edit[1].deleted_length
            /\ d.new_end_byte = edit[1].position + Len(edit[1].inserted_text)
            /\ d.start_position = PositionForOffset(old, d.start_byte)
            /\ d.old_end_position = PositionForOffset(old, d.old_end_byte)
            /\ d.new_end_position = PositionForOffset(source_code, d.new_end_byte)
            /\ treeEdits[Len(treeEdits)] = d

C8_Witness ==
    /\ pc = "reparse"
    /\ input_edit[1].new_end_position.row > input_edit[1].old_end_position.row
    /\ input_edit[1].start_byte > 0
    /\ Len(treeEdits) = 2

(* The spliced buffer, as the documentation of the edit flag defines it. *)
Spliced(b, e) ==
    SubSeq(b, 1, e.position) \o e.inserted_text
    \o SubSeq(b, e.position + e.deleted_length + 1, Len(b))

(* From flag k on, with b the buffer the first k-1 flags produced: the k-th *)
(* parse was given b, and the k-th descriptor is flag k resolved against b. *)
RECURSIVE InListOrder(_, _)
InListOrder(b, k) ==
    /\ k <= Len(parses) => parses[k] = b
    /\ k <= Len(treeEdits) =>
          LET e == ParseEditFlag(b, edits[k])
              d == treeEdits[k]
          IN  /\ e.ok
              /\ d.start_byte = e.position
              /\ d.old_end_byte = e.position + e.deleted_length
              /\ d.new_end_byte = e.position + Len(e.inserted_text)
              /\ d.old_end_byte <= Len(b)
              /\ d.start_position = PositionForOffset(b, d.start_byte)
              /\ d.old_end_position = PositionForOffset(b, d.old_end_byte)
              /\ d.new_end_position = PositionForOffset(Spliced(b, e), d.new_end_byte)
              /\ InListOrder(Spliced(b, e), k + 1)

\* C9: the edits are built and applied in list order, the k-th flag's position (`$`
\* and row,column included) and its three positions resolved against the buffer the
\* first k-1 edits produced, never against the original buffer.
C9_SequentialEdits ==
    /\ Len(treeEdits) \in {i, i + 1}
    /\ Len(parses) <= Len(treeEdits) + 1
    /\ InListOrder(original, 1)

C9_Witness ==
    /\ Len(treeEdits) = 2
    /\ edits[2][1] = "$"
    /\ treeEdits[2].start_byte = Len(parses[2])
    /\ Len(parses[2]) /= Len(original)

\* C10: perform_edit either panics with the buffer and the tree both untouched, or
\* splices the buffer and hands the tree exactly one matching descriptor; no step
\* changes one of the two without the other.
C10_AtomicApply ==
    [][/\ pc = "perform" =>
            LET e == edit[1]
            IN  \/ /\ pc' = "panicked"
                   /\ source_code' = source_code
                   /\ treeEdits' = treeEdits
                \/ /\ pc' = "reparse"
                   /\ source_code' =
                         SubSeq(source_code, 1, e.position) \o e.inserted_text
                         \o SubSeq(source_code, e.position + e.deleted_length + 1,
                                   Len(source_code))
                   /\ Len(treeEdits') = Len(treeEdits) + 1
                   /\ SubSeq(treeEdits', 1, Len(treeEdits)) = treeEdits
                   /\ treeEdits'[Len(treeEdits')].start_byte = e.position
                   /\ treeEdits'[Len(treeEdits')].old_end_byte =
                         e.position + e.deleted_length
                   /\ treeEdits'[Len(treeEdits')].new_end_byte =
                         e.position + Len(e.inserted_text)
       /\ (source_code' /= source_code \/ treeEdits' /= treeEdits) =>
            /\ pc = "perform" /\ pc' = "reparse"
            /\ Len(treeEdits') = Len(treeEdits) + 1]_vars

C10_Witness ==
    /\ pc = "panicked"
    /\ i = 1
    /\ Len(treeEdits) = 1
    /\ Len(parses) = 2
    /\ source_code = parses[2]
    /\ source_code /= original

---------------------------------------------------------------------------
(* The tree and its cursor (tree_sitter::Tree, Node, TreeCursor).  Nodes   *)
(* are numbered 1..n in document pre-order, 1 the root; parent[k] is k's   *)
(* parent (0 for the root), named[k] is Node::is_named, errs[k] tells an   *)
(* ERROR node ("error"), a MISSING node ("missing") or neither ("ok").     *)
(* A cursor move that fails returns 0 and leaves the cursor where it was.  *)
RECURSIVE AncestorsIn(_, _)
AncestorsIn(p, n) == IF n = 0 THEN {} ELSE {n} \cup AncestorsIn(p, p[n])

PreorderTrees(n) ==
    {p \in [1..n -> 0..(n - 1)] :
        /\ \A k \in 1..n : p[k] < k
        /\ \A k \in 2..n : p[k] \in AncestorsIn(p, k - 1)}

Nodes == 1..Len(parent)

Children(n) == {c \in Nodes : parent[c] = n}

SetMin(S) == CHOOSE x \in S : \A y \in S : x <= y

SetMax(S) == CHOOSE x \in S : \A y \in S : x >= y

LastChild(n) == IF Children(n) = {} THEN 0 ELSE SetMax(Children(n))

FirstChild(n) == IF Children(n) = {} THEN 0 ELSE SetMin(Children(n))

NoNextSibling(n) == 0

NextSiblingWrapping(n) ==
    LET later == {c \in Nodes : parent[c] = parent[n] /\ c > n}
    IN  IF later = {} THEN SetMin({c \in Nodes : parent[c] = parent[n]})
        ELSE SetMin(later)

NextSibling(n) ==
    LET later == {c \in Nodes : parent[c] = parent[n] /\ c > n}
    IN  IF later = {} THEN 0 ELSE SetMin(later)

NoParent(n) == 0

Parent(n) == parent[n]

IsErrorOnly(n) == errs[n] = "error"

IsErrorOrMissing(n) == errs[n] /= "ok"

(* Node::has_error: the node's subtree holds an ERROR or a MISSING node. *)
RECURSIVE HasError(_)
HasError(n) == IsErrorOrMissing(n) \/ \E c \in Children(n) : HasError(c)

---------------------------------------------------------------------------
(* StepRender::render (lines 295-345), one loop iteration per step.        *)
(* events lists the steps handed to the render strategy by combine().      *)
Step(kind, n, level) == [step |-> kind, node |-> n, indent_level |-> level]

(* indent_level += 1 (line 320) and indent_level -= 1 (line 334). *)
IndentAfterFirstChild(level) == level + 1

IndentKeptAfterParent(level) == level

IndentAfterParent(level) == level - 1

QualifiesNamedOnly(n) == named[n]

Qualifies(n) == named[n] \/ show_all

InitRender ==
    /\ pc = "render"
    /\ source_code = <<>>
    /\ \E n \in 1..MaxNodes :
          /\ parent \in PreorderTrees(n)
          /\ named \in [1..n -> BOOLEAN]
          /\ errs = [k \in 1..n |-> "ok"]
          /\ kinds = [k \in 1..n |-> "x"]
          /\ text = [k \in 1..n |-> <<>>]
    /\ show_all \in BOOLEAN
    /\ has_source = FALSE
    /\ IdleConv /\ IdleEdit /\ IdleWalk /\ IdleOut

RenderStep ==
    /\ pc = "render"
    /\ IF needs_visit_children
       THEN /\ events' = events \o
                  (IF Qualifies(cursor)
                   THEN (IF needs_newline
                         THEN <<Step("LF", cursor, indent_level)>> ELSE <<>>)
                        \o <<Step("Ident", cursor, indent_level),
                             Step("Node", cursor, indent_level)>>
                   ELSE <<>>)
            /\ needs_newline' = (needs_newline \/ Qualifies(cursor))
            /\ IF FirstChild(cursor) /= 0
               THEN /\ cursor' = FirstChild(cursor)
                    /\ needs_visit_children' = TRUE
                    /\ indent_level' = IndentAfterFirstChild(indent_level)
               ELSE /\ needs_visit_children' = FALSE
                    /\ UNCHANGED <<cursor, indent_level>>
            /\ pc' = "render"
       ELSE /\ events' = events \o
                  (IF Qualifies(cursor)
                   THEN <<Step("AfterChildren", cursor, indent_level)>> ELSE <<>>)
            /\ IF NextSibling(cursor) /= 0
               THEN /\ cursor' = NextSibling(cursor)
                    /\ needs_visit_children' = TRUE
                    /\ pc' = "render"
                    /\ UNCHANGED indent_level
               ELSE IF Parent(cursor) /= 0
               THEN /\ cursor' = Parent(cursor)
                    /\ needs_visit_children' = FALSE
                    /\ indent_level' = IndentAfterParent(indent_level)
                    /\ pc' = "render"
               ELSE /\ pc' = "rendered"
                    /\ UNCHANGED <<cursor, needs_visit_children, indent_level>>
            /\ UNCHANGED needs_newline
    /\ visits' = Append(visits, [node |-> cursor, descend |-> needs_visit_children])
    /\ UNCHANGED <<source_code, convVars, editVars, treeVars, first_error,
                   did_visit_children, tags, outVars>>

NextRender == RenderStep

SpecRender == InitRender /\ [][NextRender]_vars

---------------------------------------------------------------------------
(* The first-error scan of parse_file_at_path (lines 486-501), one loop    *)
(* iteration per step; first_error = 0 is None.                            *)
Leaves(p) == {k \in 1..Len(p) : \A c \in 1..Len(p) : p[c] /= k}

InitScan ==
    /\ pc = "scan"
    /\ source_code = <<>>
    /\ \E n \in 1..MaxNodes :
          /\ parent \in PreorderTrees(n)
          /\ named = [k \in 1..n |-> TRUE]
          /\ errs \in [1..n -> {"ok", "error", "missing"}]
          /\ kinds = [k \in 1..n |-> "x"]
          /\ text = [k \in 1..n |-> <<>>]
    /\ \A k \in 1..Len(parent) : errs[k] = "missing" => k \in Leaves(parent)
    /\ show_all = FALSE
    /\ has_source = FALSE
    /\ IdleConv /\ IdleEdit /\ IdleWalk /\ IdleOut

ScanStep ==
    /\ pc = "scan"
    /\ IF HasError(cursor)
       THEN IF IsErrorOrMissing(cursor)
            THEN /\ first_error' = cursor
                 /\ pc' = "scanned"
                 /\ UNCHANGED cursor
            ELSE IF FirstChild(cursor) /= 0
            THEN /\ cursor' = FirstChild(cursor)
                 /\ UNCHANGED <<pc, first_error>>
            ELSE /\ pc' = "scanned"
                 /\ UNCHANGED <<cursor, first_error>>
       ELSE IF NextSibling(cursor) /= 0
            THEN /\ cursor' = NextSibling(cursor)
                 /\ UNCHANGED <<pc, first_error>>
            ELSE /\ pc' = "scanned"
                 /\ UNCHANGED <<cursor, first_error>>
    /\ visits' = Append(visits, [node |-> cursor, descend |-> TRUE])
    /\ UNCHANGED <<source_code, convVars, editVars, treeVars, indent_level,
                   needs_visit_children, needs_newline, events,
                   did_visit_children, tags, outVars>>

(* The report and the return value (lines 503-537): the duration line when *)
(* an error was found or print_time is set, the found node on it.          *)
ScanReturn ==
    /\ pc = "scanned"
    /\ \E print_time \in BOOLEAN :
          stdout' =
             IF first_error /= 0
             THEN <<[w |-> "duration", timed_out |-> FALSE],
                    [w |-> "error", node |-> first_error,
                     missing |-> (errs[first_error] = "missing")]>>
             ELSE IF print_time THEN <<[w |-> "duration", timed_out |-> FALSE]>>
             ELSE <<>>
    /\ returned' = IF first_error /= 0 THEN "Ok(true)" ELSE "Ok(false)"
    /\ pc' = "returned"
    /\ UNCHANGED <<source_code, convVars, editVars, treeVars, walkVars>>

NextScan == ScanStep \/ ScanReturn

SpecScan == InitScan /\ [][NextScan]_vars

---------------------------------------------------------------------------
Count(kind, n) ==
    Cardinality({k \in 1..Len(events) : events[k].step = kind /\ events[k].node = n})

Total(kind) == Cardinality({k \in 1..Len(events) : events[k].step = kind})

\* C2: a complete traversal from the root emits as many Node (enter) steps as
\* AfterChildren (leave) steps, one of each per qualifying node and none for the
\* others: the named nodes when show_all is off, every node when it is on.
C2_EnterLeaveBalance ==
    pc = "rendered" =>
        /\ Total("Node") = Total("AfterChildren")
        /\ \A n \in Nodes :
              /\ Count("Node", n) = (IF named[n] \/ show_all THEN 1 ELSE 0)
              /\ Count("AfterChildren", n) = Count("Node", n)
        /\ ~show_all => Total("Node") = Cardinality({n \in Nodes : named[n]})
        /\ show_all => Total("Node") = Len(parent)

C2_Witness ==
    /\ pc = "rendered"
    /\ ~show_all
    /\ Len(parent) >= 4
    /\ \E n \in Nodes : ~named[n] /\ \E c \in Children(n) : named[c]
    /\ Total("Node") = 2
    /\ Total("AfterChildren") = 2

ErrorNodes == {n \in Nodes : errs[n] /= "ok"}

Ancestors(n) == AncestorsIn(parent, n)

FirstChildPath(n) == \A a \in Ancestors(n) \ {1} : \A c \in Children(parent[a]) : a <= c

(* Exactly one error-or-missing node, the flag true on it and its ancestors only. *)
SingleError(e) ==
    /\ ErrorNodes = {e}
    /\ \A n \in Nodes : HasError(n) <=> n \in Ancestors(e)

\* C3: when the only error-or-missing node is reached from the root by first-child
\* links alone, the scan stops and reports that node.
C3_FirstChildChainFound ==
    pc = "scanned" =>
        \A e \in Nodes : (SingleError(e) /\ FirstChildPath(e)) => first_error = e

C3_Witness ==
    /\ pc = "scanned"
    /\ \E e \in Nodes :
          /\ SingleError(e) /\ FirstChildPath(e)
          /\ first_error = e
          /\ Cardinality(Ancestors(e)) >= 3
          /\ \E s \in Nodes : s > e

\* C4 as stated: when the only error-or-missing node lies under a second-or-later
\* child, the scan reports no error.
C4_LaterSiblingNotFound ==
    pc = "scanned" =>
        \A e \in Nodes : (SingleError(e) /\ ~FirstChildPath(e)) => first_error = 0

\* C4 amended: when the only error-or-missing node lies under a second-or-later
\* child, the scan still reports that node: at each level it steps over the
\* error-free earlier siblings to the one whose subtree holds the error.
C4_LaterSiblingFound ==
    pc = "scanned" =>
        \A e \in Nodes : (SingleError(e) /\ ~FirstChildPath(e)) => first_error = e

C4_Witness ==
    /\ pc = "scanned"
    /\ \E e \in Nodes :
          /\ SingleError(e) /\ ~FirstChildPath(e)
          /\ first_error = e
          /\ Cardinality(Ancestors(e)) >= 3
          /\ \E a \in Ancestors(e) \ {1, e} : \E c \in Children(parent[a]) : c < a

---------------------------------------------------------------------------
(* Trees that carry node kinds and source bytes.  The buffer is the        *)
(* concatenation of the leaves' bytes in document order, so that every     *)
(* node's byte range (Node::start_byte, Node::end_byte) lies inside it and *)
(* an interior node spans exactly its leaves.  A leaf of no bytes is a     *)
(* zero-width node, as a MISSING token is.                                 *)
MaxTextNodes == 4

Kinds == {"x", "y"}

RECURSIVE Flatten(_, _)
Flatten(t, k) == IF k > Len(t) THEN <<>> ELSE t[k] \o Flatten(t, k + 1)

RECURSIVE BytesUpTo(_)
BytesUpTo(k) == IF k = 0 THEN 0 ELSE Len(text[k]) + BytesUpTo(k - 1)

Subtree(n) == {k \in Nodes : n \in Ancestors(k)}

StartByteOf(n) == BytesUpTo(n - 1)

EndByteOf(n) == BytesUpTo(SetMax(Subtree(n)))

(* &source_code[start..end] of the node under the cursor. *)
NodeText(n) == SubSeq(source_code, StartByteOf(n) + 1, EndByteOf(n))

---------------------------------------------------------------------------
(* The debug_xml walk of parse_file_at_path (lines 431-484), one loop      *)
(* iteration per step.  stdout lists the writes; each carries the node     *)
(* under the cursor when it was made.  The type="field" attribute of an    *)
(* open tag is left out, as field names are in events.                     *)
XmlLeafTexts == {<<>>, <<"a">>, <<"<">>}

(* html_escape::encode_text: &, < and > become entities. *)
HtmlEncodeChar(c) ==
    IF c = "&" THEN <<"&", "a", "m", "p", ";">>
    ELSE IF c = "<" THEN <<"&", "l", "t", ";">>
    ELSE IF c = ">" THEN <<"&", "g", "t", ";">>
    ELSE <<c>>

RECURSIVE HtmlEncodeText(_)
HtmlEncodeText(value) ==
    IF value = <<>> THEN <<>>
    ELSE HtmlEncodeChar(Head(value)) \o HtmlEncodeText(Tail(value))

IsNamedAlways(n) == TRUE

IsNamed(n) == named[n]

PushTagFront(stack, n) == <<kinds[n]>> \o stack

PushTag(stack, n) == Append(stack, kinds[n])

InitXml ==
    /\ pc = "xml"
    /\ \E n \in 1..MaxTextNodes :
          /\ parent \in PreorderTrees(n)
          /\ named \in [1..n -> BOOLEAN]
          /\ kinds \in [1..n -> Kinds]
          /\ text \in [1..n -> XmlLeafTexts]
          /\ errs = [k \in 1..n |-> "ok"]
    \* the root of a tree is a named node
    /\ named[1]
    \* the walk reads the kind of named nodes only (lines 461, 465)
    /\ \A k \in Nodes : ~named[k] => kinds[k] = "x"
    /\ \A k \in Nodes \ Leaves(parent) : text[k] = <<>>
    /\ source_code = Flatten(text, 1)
    /\ show_all = FALSE
    /\ has_source = FALSE
    /\ IdleConv /\ IdleEdit /\ IdleWalk /\ IdleOut

XmlStep ==
    /\ pc = "xml"
    /\ visits' = Append(visits, [node |-> cursor, descend |-> ~did_visit_children])
    /\ IF did_visit_children
       THEN IF IsNamed(cursor) /\ tags = <<>>
            THEN \* tag.expect("there is a tag")
                 /\ pc' = "panicked"
                 /\ UNCHANGED <<cursor, indent_level, needs_newline,
                                did_visit_children, tags, stdout>>
            ELSE LET closed ==
                         IF IsNamed(cursor)
                         THEN <<[w |-> "close", node |-> cursor, kind |-> tags[Len(tags)]]>>
                         ELSE <<>>
                 IN  /\ tags' = IF IsNamed(cursor)
                                THEN SubSeq(tags, 1, Len(tags) - 1) ELSE tags
                     /\ needs_newline' = (needs_newline \/ IsNamed(cursor))
                     /\ IF NextSibling(cursor) /= 0
                        THEN /\ cursor' = NextSibling(cursor)
                             /\ did_visit_children' = FALSE
                             /\ stdout' = stdout \o closed
                             /\ UNCHANGED <<indent_level, pc>>
                        ELSE IF Parent(cursor) /= 0
                        THEN /\ cursor' = Parent(cursor)
                             /\ did_visit_children' = TRUE
                             /\ indent_level' = indent_level - 1
                             /\ stdout' = stdout \o closed
                             /\ UNCHANGED pc
                        ELSE \* break; cursor.reset(root); println!("")
                             /\ pc' = "xml_done"
                             /\ cursor' = 1
                             /\ stdout' = stdout \o closed \o
                                    <<[w |-> "newline", node |-> cursor]>>
                             /\ UNCHANGED <<did_visit_children, indent_level>>
       ELSE LET opened ==
                    IF IsNamed(cursor)
                    THEN (IF needs_newline
                          THEN <<[w |-> "newline", node |-> cursor]>> ELSE <<>>)
                         \o <<[w |-> "indent", node |-> cursor, count |-> indent_level],
                              [w |-> "open", node |-> cursor, kind |-> kinds[cursor]]>>
                    ELSE <<>>
            IN  /\ tags' = IF IsNamed(cursor) THEN PushTag(tags, cursor) ELSE tags
                /\ needs_newline' = (needs_newline \/ IsNamed(cursor))
                /\ IF FirstChild(cursor) /= 0
                   THEN /\ cursor' = FirstChild(cursor)
                        /\ did_visit_children' = FALSE
                        /\ indent_level' = indent_level + 1
                        /\ stdout' = stdout \o opened
                   ELSE /\ did_visit_children' = TRUE
                        /\ stdout' = stdout \o opened \o
                               <<[w |-> "text", node |-> cursor,
                                  bytes |-> HtmlEncodeText(NodeText(cursor))]>>
                        /\ UNCHANGED <<cursor, indent_level>>
                /\ UNCHANGED pc
    /\ UNCHANGED <<source_code, convVars, editVars, treeVars, needs_visit_children,
                   events, first_error, returned>>

NextXml == XmlStep

SpecXml == InitXml /\ [][NextXml]_vars

(* The writes of one kind. *)
Writes(kind) == {k \in 1..Len(stdout) : stdout[k].w = kind}

Tagged(n) == \E k \in Writes("open") \cup Writes("close") : stdout[k].node = n

\* C11 (as stated): the tag-markup walk writes nothing for an anonymous node,
\* neither a tag nor any source text; source text is written for named leaves only.
C11_AnonymousNodesSilent ==
    \A k \in 1..Len(stdout) :
        \/ named[stdout[k].node]
        \/ /\ stdout[k].w \notin {"open", "close"}
           /\ stdout[k].w = "text" => stdout[k].bytes = <<>>

\* C11 (amended): the tag-markup walk writes no open or close tag for an anonymous
\* node, but it writes the escaped source text of every leaf, anonymous leaves
\* included: once the walk is over there is exactly one text write per leaf, in
\* document order, and none for an interior node.
C11_AnonymousNodesUntagged ==
    /\ \A n \in Nodes : Tagged(n) => named[n]
    /\ \A k \in Writes("text") :
          /\ stdout[k].node \in Leaves(parent)
          /\ stdout[k].bytes = HtmlEncodeText(NodeText(stdout[k].node))
          /\ \A j \in Writes("text") : j < k => stdout[j].node < stdout[k].node
    /\ pc = "xml_done" =>
          \A n \in Leaves(parent) : \E k \in Writes("text") : stdout[k].node = n

C11_Witness ==
    /\ pc = "xml_done"
    /\ \E n \in Leaves(parent), m \in Nodes \ Leaves(parent) :
          /\ ~named[n] /\ ~named[m] /\ m /= 1
          /\ \E k \in Writes("text") : stdout[k].node = n /\ stdout[k].bytes /= <<>>
    /\ \E n \in Leaves(parent) : named[n] /\ text[n] = <<"<">>

(* The nodes whose open tag is among the first k writes and whose close    *)
(* tag is not, innermost last.                                             *)
RECURSIVE OpenAfter(_)
OpenAfter(k) ==
    IF k = 0 THEN <<>>
    ELSE LET before == OpenAfter(k - 1)
         IN  IF stdout[k].w = "open" THEN Append(before, stdout[k].node)
             ELSE IF stdout[k].w = "close" /\ before /= <<>>
             THEN SubSeq(before, 1, Len(before) - 1)
             ELSE before

\* C19: in the tag-markup walk open and close tags are properly nested: every close
\* tag written carries the kind of the most recently opened, not yet closed named
\* node (and is written for that node), the tag stack is never popped while empty,
\* and it is empty when the walk terminates, every open tag being closed by then.
C19_TagsNested ==
    /\ pc /= "panicked"
    /\ \A k \in Writes("close") :
          LET open == OpenAfter(k - 1)
          IN  /\ open /= <<>>
              /\ stdout[k].node = open[Len(open)]
              /\ stdout[k].kind = kinds[open[Len(open)]]
    /\ tags = [k \in 1..Len(tags) |-> kinds[OpenAfter(Len(stdout))[k]]]
    /\ pc = "xml_done" => tags = <<>> /\ OpenAfter(Len(stdout)) = <<>>

C19_Witness ==
    /\ pc = "xml_done"
    /\ \E a, b, c \in Nodes :
          /\ named[a] /\ ~named[b] /\ named[c]
          /\ parent[b] = a /\ parent[c] = b
          /\ kinds[a] /= kinds[c]
    /\ Cardinality(Writes("close")) >= 3

---------------------------------------------------------------------------
(* NodeTreeWithRangesLine (lines 182-289), the strategy parse_file_at_path *)
(* renders with (lines 420-426, dquote_unnamed(true)).  The strategy is    *)
(* fed the steps of events in order; LineRender(k) is its state after the  *)
(* first k steps, buf holding the fragments returned so far.  Colours,     *)
(* the field name and the digits of the range column are left out of a     *)
(* fragment; last_line_no = -1 stands for usize::MAX, which is the row of  *)
(* no node.                                                                *)
LineLeafTexts == {<<>>, <<"a">>, <<NL>>}

StartPosition(n) == PositionForOffset(source_code, StartByteOf(n))

EndPosition(n) == PositionForOffset(source_code, EndByteOf(n))

NodeRange(n) == <<StartByteOf(n), EndByteOf(n), StartPosition(n), EndPosition(n)>>

LineNew == [new_line_started |-> FALSE, last_line_no |-> -1, buf |-> <<>>]

ShowsValueOnAnyRows(st, n) ==
    /\ has_source
    /\ named[n] /\ (Cardinality(Children(n)) = 0 \/ st.new_line_started)
    /\ \/ FirstChild(n) = 0
       \/ NodeRange(FirstChild(n)) /= NodeRange(n)
       \/ ~named[FirstChild(n)]

(* The nested conditions of lines 264-270. *)
ShowsValue(st, n) ==
    /\ has_source
    /\ named[n] /\ (Cardinality(Children(n)) = 0 \/ st.new_line_started)
    /\ \/ FirstChild(n) = 0
       \/ NodeRange(FirstChild(n)) /= NodeRange(n)
       \/ ~named[FirstChild(n)]
    /\ StartPosition(n).row = EndPosition(n).row

LineRenderStep(st, c) ==
    IF c.step = "Ident"
    THEN [st EXCEPT
            !.buf = Append(@, [step |-> "Ident", node |-> c.node,
                               painted |-> st.last_line_no /= StartPosition(c.node).row,
                               indent |-> c.indent_level * 2 + 14]),
            !.last_line_no = StartPosition(c.node).row]
    ELSE IF c.step = "Node"
    THEN [st EXCEPT
            !.buf = Append(@, [step |-> "Node", node |-> c.node,
                               quoted |-> ~named[c.node],
                               annotated |-> ShowsValue(st, c.node),
                               value |-> IF ShowsValue(st, c.node)
                                         THEN NodeText(c.node) ELSE <<>>]),
            !.new_line_started = FALSE]
    ELSE IF c.step = "AfterChildren"
    THEN [st EXCEPT !.buf = Append(@, [step |-> "AfterChildren", node |-> c.node])]
    ELSE [st EXCEPT !.buf = Append(@, [step |-> "LF", node |-> c.node]),
                    !.new_line_started = TRUE]

RECURSIVE LineRender(_)
LineRender(k) ==
    IF k = 0 THEN LineNew ELSE LineRenderStep(LineRender(k - 1), events[k])

InitLine ==
    /\ pc = "render"
    /\ \E n \in 1..MaxTextNodes :
          /\ parent \in PreorderTrees(n)
          /\ named \in [1..n -> BOOLEAN]
          /\ text \in [1..n -> LineLeafTexts]
          /\ kinds = [k \in 1..n |-> "x"]
          /\ errs = [k \in 1..n |-> "ok"]
    \* the root of a tree is a named node
    /\ named[1]
    /\ \A k \in Nodes \ Leaves(parent) : text[k] = <<>>
    /\ source_code = Flatten(text, 1)
    /\ show_all \in BOOLEAN
    /\ has_source \in BOOLEAN
    /\ IdleConv /\ IdleEdit /\ IdleWalk /\ IdleOut

SpecLine == InitLine /\ [][NextRender]_vars

(* The Node fragments of the output so far. *)
LineBuf == LineRender(Len(events)).buf

NodeFragments == {k \in 1..Len(LineBuf) : LineBuf[k].step = "Node"}

NamedChildren(n) == {c \in Children(n) : named[c]}

SingleRow(n) == StartPosition(n).row = EndPosition(n).row

FirstEmitted(k) == \A j \in NodeFragments : j >= k

\* C12 (as stated): the line-annotated strategy appends the source snippet to a
\* node's line if and only if source text is available, the node is named, it has
\* no named children and its start row equals its end row, whether or not the node
\* is the first one emitted.
C12_ValueIffNoNamedChildren ==
    \A k \in NodeFragments :
        LET n == LineBuf[k].node
        IN  LineBuf[k].annotated <=>
               (has_source /\ named[n] /\ NamedChildren(n) = {} /\ SingleRow(n))

\* C12 (amended): the snippet is appended if and only if source text is available,
\* the node is named, its start row equals its end row, its first child (if it has
\* one) is anonymous or spans a range other than the node's own, and the node has
\* no children or is not the first node emitted; the snippet is the node's bytes.
C12_ValueCondition ==
    \A k \in NodeFragments :
        LET n == LineBuf[k].node
        IN  /\ LineBuf[k].annotated <=>
                 /\ has_source /\ named[n] /\ SingleRow(n)
                 /\ \A c \in Children(n) :
                       (\A d \in Children(n) : c <= d) =>
                          \/ ~named[c]
                          \/ StartByteOf(c) /= StartByteOf(n)
                          \/ EndByteOf(c) /= EndByteOf(n)
                 /\ Children(n) = {} \/ ~FirstEmitted(k)
            /\ LineBuf[k].annotated =>
                 LineBuf[k].value = SubSeq(source_code, StartByteOf(n) + 1, EndByteOf(n))

C12_Witness ==
    /\ pc = "rendered" /\ has_source
    /\ \E j, k \in NodeFragments :
          /\ FirstEmitted(j) /\ ~LineBuf[j].annotated
          /\ SingleRow(LineBuf[j].node) /\ Children(LineBuf[j].node) /= {}
          /\ LineBuf[k].annotated /\ NamedChildren(LineBuf[k].node) /= {}
          /\ LineBuf[k].value /= <<>>

---------------------------------------------------------------------------
(* A call of the external parser of this run returned no tree: the first   *)
(* parse (line 394), or the re-parse that follows an applied edit (line    *)
(* 407; perform_edit panics with i edits applied, the re-parse with i + 1).*)
FirstParseGaveNoTree == pc \in {"timed_out", "returned"}

ReparseGaveNoTree == pc = "panicked" /\ Len(treeEdits) = i + 1

\* C13: whenever a call to the external parser returns no tree, nothing is applied,
\* rendered or scanned after that point, the only output is the elapsed-duration
\* report, the parse is not retried, and the run ends with the result 'no error
\* found' rather than in a panic.
C13_NoTreeMeansNoErrorFound ==
    (FirstParseGaveNoTree \/ ReparseGaveNoTree) =>
        /\ pc /= "panicked"
        /\ Len(parses) <= Len(treeEdits) + 1
        /\ \A k \in 1..Len(stdout) : stdout[k].w = "duration"
        /\ pc = "returned" => returned = "Ok(false)"

---------------------------------------------------------------------------
(* The flag `$ 0 T` with T free of newlines, and its T. *)
AppendsAtEnd(flag) ==
    /\ Len(flag) >= 4
    /\ SubSeq(flag, 1, 4) = <<"$", " ", "0", " ">>
    /\ NL \notin Range(SubSeq(flag, 5, Len(flag)))

\* C14: applying `$ 0 T` (T without a newline) to a buffer of length n resolves the
\* position to n and yields start_byte = old_end_byte = n, new_end_byte = n + len(T)
\* = the new buffer length, new_end_position on the row of old_end_position with
\* its column advanced by len(T); the buffer becomes the old one followed by T.
C14_AppendAtEnd ==
    (pc = "reparse" /\ AppendsAtEnd(edits[i + 1])) =>
        LET n == Len(parses[i + 1])
            T == SubSeq(edits[i + 1], 5, Len(edits[i + 1]))
            d == input_edit[1]
        IN  /\ edit[1].position = n
            /\ d.start_byte = n /\ d.old_end_byte = n
            /\ d.new_end_byte = n + Len(T)
            /\ d.new_end_byte = Len(source_code)
            /\ d.new_end_position.row = d.old_end_position.row
            /\ d.new_end_position.column = d.old_end_position.column + Len(T)
            /\ source_code = parses[i + 1] \o T

C14_Witness ==
    /\ pc = "reparse" /\ i = 1
    /\ AppendsAtEnd(edits[2])
    /\ Len(parses[2]) >= 2 /\ NL \in Range(parses[2])
    /\ input_edit[1].old_end_position.column > 0

(* The part of a flag after its second space; empty when there is none. *)
AfterSecondSpace(flag) ==
    LET spaces == {k \in 1..Len(flag) : flag[k] = " "}
    IN  IF Cardinality(spaces) < 2 THEN <<>>
        ELSE LET second == CHOOSE k \in spaces :
                               Cardinality({j \in spaces : j < k}) = 1
             IN  SubSeq(flag, second + 1, Len(flag))

\* C15: for every flag that parses, inserted_text is exactly the part of the flag
\* after its second space, byte for byte (text holding spaces keeps them, leading
\* and repeated ones included), and it is empty when the flag has just two fields.
C15_InsertedTextVerbatim ==
    (pc \in {"perform", "reparse"}) =>
        /\ edit[1].ok
        /\ edit[1].inserted_text = AfterSecondSpace(edits[i + 1])
        /\ Len(Split(edits[i + 1], " ")) = 2 => edit[1].inserted_text = <<>>

C15_Witness ==
    /\ pc = "perform" /\ i = 1
    /\ Len(Split(edits[1], " ")) = 2
    /\ edit[1].inserted_text = <<" ", "a">>

---------------------------------------------------------------------------
(* render() runs its loop to completion once called: a step that is        *)
(* enabled is taken.                                                       *)
SpecRenderFair == SpecRender /\ WF_vars(NextRender)

VisitCount(n, d) ==
    Cardinality({k \in 1..Len(visits) : visits[k] = [node |-> n, descend |-> d]})

\* C16: on every finite tree the render traversal started at the root terminates,
\* having visited every node exactly once in the descend state and exactly once in
\* the ascend state, with the cursor back at the root and indent_level 0.
C16_RenderTerminates ==
    <>(/\ pc = "rendered"
       /\ \A n \in Nodes : VisitCount(n, TRUE) = 1 /\ VisitCount(n, FALSE) = 1
       /\ Len(visits) = 2 * Len(parent)
       /\ cursor = 1
       /\ indent_level = 0)

C16_Witness ==
    /\ pc = "rendered"
    /\ Len(parent) = MaxNodes
    /\ Len(visits) = 2 * MaxNodes
    /\ \E n \in Nodes : Cardinality(Children(n)) >= 2 /\ n /= 1

(* The number of edges between a node and the root. *)
Depth(n) == Cardinality(Ancestors(n)) - 1

\* C17: at every iteration of the render traversal indent_level is the depth of
\* the node under the cursor (root = 0), so every Node step carries its node's true
\* depth however many anonymous ancestors were skipped, and the decrement is only
\* reached with indent_level >= 1: it never goes below zero.
C17_IndentIsDepth ==
    /\ indent_level = Depth(cursor)
    /\ indent_level >= 0
    /\ \A k \in 1..Len(events) : events[k].indent_level = Depth(events[k].node)
    /\ (pc = "render" /\ ~needs_visit_children
           /\ NextSibling(cursor) = 0 /\ Parent(cursor) /= 0) => indent_level >= 1

C17_Witness ==
    /\ pc = "rendered" /\ ~show_all
    /\ \E k \in 1..Len(events) :
          /\ events[k].step = "Node" /\ events[k].indent_level = 3
          /\ ~named[parent[events[k].node]]
          /\ ~named[parent[parent[events[k].node]]]

---------------------------------------------------------------------------
(* NodeTreeWithRanges::render_step (lines 114-143): the fragment returned  *)
(* for a step, as a sequence of tokens; the kind is one token and the      *)
(* field name and the digits of the range are left out.                    *)
RangedRenderStepNoClose(c) ==
    IF c.step = "Node" THEN <<"(", kinds[c.node]>>
    ELSE IF c.step = "Ident" THEN [k \in 1..c.indent_level |-> "  "]
    ELSE IF c.step = "LF" THEN <<NL>>
    ELSE <<>>

RangedRenderStep(c) ==
    IF c.step = "AfterChildren" THEN <<")">>
    ELSE IF c.step = "Node" THEN <<"(", kinds[c.node]>>
    ELSE IF c.step = "Ident" THEN [k \in 1..c.indent_level |-> "  "]
    ELSE <<NL>>

RECURSIVE RangedOutput(_)
RangedOutput(k) ==
    IF k = 0 THEN <<>> ELSE RangedOutput(k - 1) \o RangedRenderStep(events[k])

Steps(kind) == {k \in 1..Len(events) : events[k].step = kind}

Tokens(out, token, upto) == Cardinality({k \in 1..upto : out[k] = token})

\* C18: the steps of a traversal are well nested: Node (enter) steps come in
\* document pre-order; AfterChildren (leave) of n comes after the enter of n and
\* after the leave of every qualifying descendant of n, and before the enter of any
\* node that follows n's subtree; so every prefix of the ranged strategy's output
\* has at least as many "(" as ")" and the whole output has as many of each.
C18_WellNested ==
    /\ \A j, k \in Steps("Node") : j < k => events[j].node < events[k].node
    /\ \A k \in Steps("AfterChildren") :
          LET n == events[k].node
          IN  /\ \E j \in Steps("Node") : j < k /\ events[j].node = n
              /\ \A d \in Subtree(n) \ {n} :
                    Qualifies(d) =>
                       \E j \in Steps("AfterChildren") : j < k /\ events[j].node = d
              /\ \A j \in Steps("Node") : j < k => events[j].node <= SetMax(Subtree(n))
    /\ \A k \in Steps("Node") :
          \A n \in Nodes :
             (Qualifies(n) /\ n < events[k].node /\ events[k].node \notin Subtree(n)) =>
                \E j \in Steps("AfterChildren") : j < k /\ events[j].node = n
    /\ LET out == RangedOutput(Len(events))
       IN  /\ \A p \in 0..Len(out) : Tokens(out, "(", p) >= Tokens(out, ")", p)
           /\ pc = "rendered" => Tokens(out, "(", Len(out)) = Tokens(out, ")", Len(out))

C18_Witness ==
    /\ pc = "rendered" /\ ~show_all
    /\ \E a, b, c, d \in Nodes :
          /\ named[a] /\ ~named[b] /\ named[c] /\ named[d]
          /\ parent[b] = a /\ parent[c] = b /\ d > c /\ d \notin Subtree(a)
    /\ Tokens(RangedOutput(Len(events)), ")", Len(RangedOutput(Len(events)))) >= 3

---------------------------------------------------------------------------
(* The scan loop runs to completion once entered. *)
SpecScanFair == SpecScan /\ WF_vars(NextScan)

(* b is the first child of a, or the sibling that follows a, in the tree. *)
IsFirstChildOf(b, a) == parent[b] = a /\ \A c \in Children(a) : b <= c

IsNextSiblingOf(b, a) ==
    /\ parent[b] = parent[a] /\ b > a
    /\ \A c \in Children(parent[a]) : c > a => b <= c

(* Cursor moves made so far: every finished iteration but a final one. *)
ScanMoves == IF pc = "scan" THEN Len(visits) ELSE Len(visits) - 1

ScanForward ==
    /\ \A k \in 1..(Len(visits) - 1) :
          \/ IsFirstChildOf(visits[k + 1].node, visits[k].node)
          \/ IsNextSiblingOf(visits[k + 1].node, visits[k].node)
    /\ pc = "scan" /\ visits /= <<>> =>
          \/ IsFirstChildOf(cursor, visits[Len(visits)].node)
          \/ IsNextSiblingOf(cursor, visits[Len(visits)].node)
    /\ \A j, k \in 1..Len(visits) : j < k => visits[j].node /= visits[k].node
    /\ \A k \in 1..Len(visits) : pc = "scan" => visits[k].node /= cursor
    /\ ScanMoves <= Len(parent)

\* C20: the first-error scan moves the cursor only to a first child or to the next
\* sibling, never back to a parent; it examines each node at most once, and on
\* every finite tree it terminates after at most as many cursor moves as the tree
\* has nodes.
C20_ScanForwardOnly == []ScanForward /\ <>(pc = "scanned")

C20_Witness ==
    /\ pc = "scanned"
    /\ Len(visits) >= 4
    /\ \E j, k \in 1..(Len(visits) - 1) :
          /\ IsFirstChildOf(visits[j + 1].node, visits[j].node)
          /\ IsNextSiblingOf(visits[k + 1].node, visits[k].node)

---------------------------------------------------------------------------
(* The subtree-has-error flag agrees with the error and missing nodes. *)
FlagsConsistent ==
    \A n \in Nodes :
        HasError(n) <=> (errs[n] /= "ok" \/ \E c \in Children(n) : HasError(c))

Reported == {stdout[k].node : k \in {j \in 1..Len(stdout) : stdout[j].w = "error"}}

\* C21: with a consistent subtree-has-error flag, the first-error scan started at
\* the root reports a node if and only if the root's flag is true, and the node it
\* reports (and returns 'error found' for) is the first error-or-missing node of
\* the whole tree in document pre-order.
C21_FirstErrorInPreorder ==
    /\ FlagsConsistent
    /\ pc = "returned" =>
          /\ first_error /= 0 <=> HasError(1)
          /\ returned = "Ok(true)" <=> HasError(1)
          /\ ErrorNodes /= {} => first_error = SetMin(ErrorNodes)
          /\ ErrorNodes = {} => first_error = 0
          /\ Reported = IF first_error = 0 THEN {} ELSE {first_error}

C21_Witness ==
    /\ pc = "returned" /\ returned = "Ok(true)"
    /\ Cardinality(ErrorNodes) >= 2
    /\ first_error = SetMin(ErrorNodes)
    /\ ~FirstChildPath(first_error)
    /\ Cardinality(Ancestors(first_error)) >= 3
    /\ \E e \in ErrorNodes : errs[e] = "missing"

---------------------------------------------------------------------------
(* offset_for_position applied to every buffer and every position, on and  *)
(* off the buffer (rows and columns up to one past MaxBufLen), as          *)
(* parse_edit_flag applies it to a row,column pair (line 598), and         *)
(* position_for_offset applied to its result.                              *)
Targets == {Point(r, c) : r \in 0..(MaxBufLen + 1), c \in 0..(MaxBufLen + 1)}

InitClamp ==
    /\ pc = "clamp"
    /\ source_code \in Buffers
    /\ point \in Targets
    /\ offset = 0 /\ position = Point(0, 0) /\ back = 0
    /\ IdleEdit /\ IdleTree /\ IdleWalk /\ IdleOut

ClampOffset ==
    /\ pc = "clamp"
    /\ back' = OffsetForPosition(source_code, point)
    /\ pc' = "clamp_back"
    /\ UNCHANGED <<source_code, offset, position, point, editVars, treeVars,
                   walkVars, outVars>>

ClampPosition ==
    /\ pc = "clamp_back"
    /\ SliceInBounds(source_code, back)
    /\ position' = PositionForOffset(source_code, back)
    /\ pc' = "clamp_done"
    /\ UNCHANGED <<source_code, offset, back, point, editVars, treeVars,
                   walkVars, outVars>>

NextClamp == ClampOffset \/ ClampPosition

SpecClamp == InitClamp /\ [][NextClamp]_vars

(* The rows of the buffer: row r starts after the r-th newline and ends at *)
(* the next newline, or at the end of the buffer on the last row.          *)
Newlines == {k \in 1..Len(source_code) : source_code[k] = NL}

LastRow == Cardinality(Newlines)

NewlineNo(r) == CHOOSE k \in Newlines : Cardinality({j \in Newlines : j < k}) = r - 1

RowStart(r) == IF r = 0 THEN 0 ELSE NewlineNo(r)

RowEnd(r) == IF r = LastRow THEN Len(source_code) ELSE NewlineNo(r + 1) - 1

\* C22: offset_for_position clamps rather than fails: for every buffer b and every
\* position p the result r satisfies 0 <= r <= len(b) and position_for_offset(b, r)
\* <= p in (row, column) order, with equality exactly when p is the position of
\* some offset of b; a column past the end of an existing row gives the offset of
\* that row's terminating newline (len(b) on the last row), and a row past the
\* last row gives len(b).
C22_Clamps ==
    /\ pc \in {"clamp_back", "clamp_done"} => (0 <= back /\ back <= Len(source_code))
    /\ pc = "clamp_done" =>
          /\ \/ position.row < point.row
             \/ position.row = point.row /\ position.column <= point.column
          /\ position = point <=>
                \E o \in 0..Len(source_code) : PositionForOffset(source_code, o) = point
          /\ (point.row <= LastRow
                /\ point.column > RowEnd(point.row) - RowStart(point.row)) =>
                back = RowEnd(point.row)
          /\ point.row > LastRow => back = Len(source_code)

C22_Witness ==
    /\ pc = "clamp_done"
    /\ point.row < LastRow /\ point.row > 0
    /\ point.column > RowEnd(point.row) - RowStart(point.row)
    /\ source_code[back + 1] = NL
    /\ position /= point

====
